---- MODULE Spec2Model ----
(***************************************************************************)
(* Model of the worker pool of src/src/lib.rs: ThreadPool (new, build,     *)
(* init, execute, Drop::drop) and the loop of the thread spawned by        *)
(* Worker::new.  The std::sync::mpsc channel and the Mutex are modelled by *)
(* what the code relies on: an unbounded FIFO whose recv blocks while the  *)
(* queue is empty and the Sender exists, and fails once the queue is empty *)
(* and the Sender is dropped; a send that fails once the Receiver is       *)
(* dropped; a Receiver that lives as long as one Arc clone of it does and  *)
(* discards the queued messages when it is dropped.                        *)
(***************************************************************************)
EXTENDS Integers, Sequences, FiniteSets, TLC

\* Bounds of the model.
MaxSize == 2      \* largest size passed to new / build
MaxJobs == 3      \* number of execute calls
MaxDrops == 2     \* number of times the body of Drop::drop is entered

VARIABLES
  ctorPath,     \* "none" | "new" | "build": the constructor that was called
  ctorResult,   \* "none" | "ok" | "err" | "panic": what it produced
  errMsg,       \* the &'static str carried by PoolError::CreationError
  size,         \* the size argument
  chan,         \* TRUE once mpsc::channel() has been called
  workers,      \* ThreadPool.workers: Vec<Worker>, records [id, thread]
  sender,       \* ThreadPool.sender: "Some" | "None"
  queue,        \* the messages in the channel, oldest first
  rxRefs,       \* strong count of the Arc<Mutex<Receiver>>
  locked,       \* the Mutex is locked
  guard,        \* guard[w]: worker thread w owns the MutexGuard
  wpc,          \* wpc[w]: position of worker thread w in its loop
  cur,          \* cur[w]: the value of `job` in worker thread w
  body,         \* body[j]: what the closure of the j-th execute call does
  accepted,     \* the jobs whose send returned Ok
  discarded,    \* the jobs dropped with the Receiver without being called
  deq,          \* deq[j]: how many times recv returned job j
  runs,         \* runs[j]: how many times job j was called
  finished,     \* finished[j]: how many times job j returned
  execCalls,    \* number of execute calls so far
  lastExec,     \* outcome of the last execute call
  execPanicked, \* an execute call panicked
  dropPc,       \* position of the owner in Drop::drop
  joinIdx,      \* index (from 1) of the worker the loop of drop is at
  dropCalls     \* number of times drop was entered

vars == <<ctorPath, ctorResult, errMsg, size, chan, workers, sender, queue,
          rxRefs, locked, guard, wpc, cur, body, accepted, discarded, deq,
          runs, finished, execCalls, lastExec, execPanicked, dropPc, joinIdx,
          dropCalls>>

poolVars == <<ctorPath, ctorResult, errMsg, size, chan>>
jobVars == <<body, accepted, execCalls, lastExec, execPanicked>>
dropVars == <<dropPc, joinIdx, dropCalls>>

Jobs == 1..MaxJobs
Bodies == {"ok", "fail"}
Range(s) == {s[i] : i \in 1..Len(s)}
Inc(n) == IF n < 2 THEN n + 1 ELSE 2   \* history counters saturate at 2

NoJob == [tag |-> "None", job |-> 0]
OkJob(j) == [tag |-> "Ok", job |-> j]
RecvError == [tag |-> "Err", job |-> 0]

ZeroMsg == "Number of threads equals zero"

----------------------------------------------------------------------------
(* Construction: ThreadPool::new, ThreadPool::build, ThreadPool::init.     *)

\* Worker::new(id, receiver): the struct it returns (the spawned thread
\* starts at the top of its loop, see PoolInit).
WorkerNew(id) == [id |-> id, thread |-> TRUE]

\* for i in 0..size { workers.push(Worker::new(i, Arc::clone(..))) }
RECURSIVE PushWorkers(_, _, _)
PushWorkersSkipFirst(ws, i, n) ==
  IF i + 1 >= n THEN ws ELSE PushWorkers(Append(ws, WorkerNew(i + 1)), i + 1, n)
PushWorkers(ws, i, n) ==
  IF i >= n THEN ws ELSE PushWorkers(Append(ws, WorkerNew(i)), i + 1, n)

\* ThreadPool::init(size): one channel, `size` workers on clones of the one
\* Arc<Mutex<Receiver>>, the Sender kept in Some.  The local shared_receiver
\* is dropped when init returns, so the Arc is held by the threads alone.
PoolInit(n) ==
  /\ chan' = TRUE
  /\ workers' = PushWorkers(<<>>, 0, n)
  /\ sender' = "Some"
  /\ queue' = <<>>
  /\ rxRefs' = n
  /\ locked' = FALSE
  /\ guard' = [w \in 1..n |-> FALSE]
  /\ wpc' = [w \in 1..n |-> "lock"]
  /\ cur' = [w \in 1..n |-> NoJob]

NoPool == UNCHANGED <<chan, workers, sender, queue, rxRefs, locked, guard, wpc, cur>>

\* assert!(size > 0) of new
NewAssert(n) == n > 0

\* if size == 0 of build
BuildRejectsNone(n) == FALSE
BuildRejects(n) == n = 0

New(n) ==
  /\ ctorPath = "none"
  /\ ctorPath' = "new"
  /\ size' = n
  /\ errMsg' = ""
  /\ IF NewAssert(n)
       THEN ctorResult' = "ok" /\ PoolInit(n)
       ELSE ctorResult' = "panic" /\ NoPool
  /\ UNCHANGED <<discarded, deq, runs, finished, jobVars, dropVars>>

Build(n) ==
  /\ ctorPath = "none"
  /\ ctorPath' = "build"
  /\ size' = n
  /\ IF BuildRejects(n)
       THEN ctorResult' = "err" /\ errMsg' = ZeroMsg /\ NoPool
       ELSE ctorResult' = "ok" /\ errMsg' = "" /\ PoolInit(n)
  /\ UNCHANGED <<discarded, deq, runs, finished, jobVars, dropVars>>

----------------------------------------------------------------------------
(* ThreadPool::execute                                                     *)

\* mpsc::Sender::send appends at the tail of the channel.
SendFront(q, j) == <<j>> \o q
Send(q, j) == Append(q, j)

\* self.sender.as_mut().unwrap().send(..).unwrap(): the first unwrap panics
\* on None; send returns Err once the Receiver is dropped and the second
\* unwrap panics; otherwise the job is queued.
ExecOutcomeSilent(snd, refs) == "ok"
ExecOutcome(snd, refs) ==
  IF snd = "None" THEN "panic_none"
  ELSE IF refs = 0 THEN "panic_send"
  ELSE "ok"

\* execute and drop both take &mut self: a call is made between, never
\* inside, runs of drop.  A caller whose execute call panicked makes no
\* further call.
Execute(b) ==
  /\ ctorResult = "ok"
  /\ dropPc \in {"none", "returned"}
  /\ ~execPanicked
  /\ execCalls < MaxJobs
  /\ LET j == execCalls + 1
         out == ExecOutcome(sender, rxRefs)
     IN /\ execCalls' = j
        /\ body' = [body EXCEPT ![j] = b]
        /\ lastExec' = out
        /\ execPanicked' = (out # "ok")
        /\ IF out = "ok"
             THEN queue' = Send(queue, j) /\ accepted' = accepted \cup {j}
             ELSE UNCHANGED <<queue, accepted>>
  /\ UNCHANGED <<poolVars, workers, sender, rxRefs, locked, guard, wpc, cur,
                 discarded, deq, runs, finished, dropVars>>

----------------------------------------------------------------------------
(* The loop of the thread spawned by Worker::new.                          *)

Alive(w) == wpc[w] \notin {"stopped", "dead"}

\* receiver.lock(): blocks while the Mutex is locked.  The Mutex is never
\* poisoned (no thread panics with the guard), so unwrap() succeeds.
LockFreeAlways == TRUE
LockFree == ~locked

Lock(w) ==
  /\ wpc[w] = "lock"
  /\ LockFree
  /\ locked' = TRUE
  /\ guard' = [guard EXCEPT ![w] = TRUE]
  /\ wpc' = [wpc EXCEPT ![w] = "recv"]
  /\ UNCHANGED <<poolVars, workers, sender, queue, rxRefs, cur, discarded, deq,
                 runs, finished, jobVars, dropVars>>

\* What recv leaves in the channel after returning its head.
AfterRecvPeek(q) == q
AfterRecv(q) == Tail(q)

\* recv() returns Ok(job): the oldest message, removed from the channel.
RecvOk(w) ==
  /\ wpc[w] = "recv"
  /\ queue # <<>>
  /\ cur' = [cur EXCEPT ![w] = OkJob(Head(queue))]
  /\ deq' = [deq EXCEPT ![Head(queue)] = Inc(@)]
  /\ queue' = AfterRecv(queue)
  /\ wpc' = [wpc EXCEPT ![w] = "unlock"]
  /\ UNCHANGED <<poolVars, workers, sender, rxRefs, locked, guard, discarded,
                 runs, finished, jobVars, dropVars>>

\* recv() returns Err(RecvError): the Sender is dropped and nothing is queued.
DisconnectedEager == sender = "None"
Disconnected == sender = "None" /\ queue = <<>>

RecvErr(w) ==
  /\ wpc[w] = "recv"
  /\ Disconnected
  /\ cur' = [cur EXCEPT ![w] = RecvError]
  /\ wpc' = [wpc EXCEPT ![w] = "unlock"]
  /\ UNCHANGED <<poolVars, workers, sender, queue, rxRefs, locked, guard,
                 discarded, deq, runs, finished, jobVars, dropVars>>

\* End of `let job = receiver.lock().unwrap().recv();`: the temporary
\* MutexGuard is dropped, which unlocks the Mutex.
GuardAfterLetKept(w) == TRUE
GuardAfterLet(w) == FALSE

Unlock(w) ==
  /\ wpc[w] = "unlock"
  /\ guard' = [guard EXCEPT ![w] = GuardAfterLet(w)]
  /\ locked' = GuardAfterLet(w)
  /\ wpc' = [wpc EXCEPT ![w] = "match"]
  /\ UNCHANGED <<poolVars, workers, sender, queue, rxRefs, cur, discarded, deq,
                 runs, finished, jobVars, dropVars>>

\* Ok(job) => { println!(..); job(); }: the call of the job begins.
StartJob(w) ==
  /\ wpc[w] = "match"
  /\ cur[w].tag = "Ok"
  /\ runs' = [runs EXCEPT ![cur[w].job] = Inc(@)]
  /\ wpc' = [wpc EXCEPT ![w] = "run"]
  /\ UNCHANGED <<poolVars, workers, sender, queue, rxRefs, locked, guard, cur,
                 discarded, deq, finished, jobVars, dropVars>>

\* job() returns: the FnOnce is consumed and the loop starts over.
FinishJob(w) ==
  /\ wpc[w] = "run"
  /\ body[cur[w].job] = "ok"
  /\ finished' = [finished EXCEPT ![cur[w].job] = Inc(@)]
  /\ cur' = [cur EXCEPT ![w] = NoJob]
  /\ wpc' = [wpc EXCEPT ![w] = "lock"]
  /\ UNCHANGED <<poolVars, workers, sender, queue, rxRefs, locked, guard,
                 discarded, deq, runs, jobVars, dropVars>>

\* The thread ends (break, or unwinding): its closure, and with it its clone
\* of the Arc, is dropped; the last clone drops the Receiver, which discards
\* the messages still queued.
ThreadEnd(w, how) ==
  /\ wpc' = [wpc EXCEPT ![w] = how]
  /\ cur' = [cur EXCEPT ![w] = NoJob]
  /\ rxRefs' = rxRefs - 1
  /\ IF rxRefs = 1
       THEN queue' = <<>> /\ discarded' = discarded \cup Range(queue)
       ELSE UNCHANGED <<queue, discarded>>

\* job() panics: nothing in the loop catches it, the thread unwinds.
FailJob(w) ==
  /\ wpc[w] = "run"
  /\ body[cur[w].job] = "fail"
  /\ ThreadEnd(w, "dead")
  /\ UNCHANGED <<poolVars, workers, sender, locked, guard, deq, runs, finished,
                 jobVars, dropVars>>

\* Err(_) => { println!(..); break; }
Shutdown(w) ==
  /\ wpc[w] = "match"
  /\ cur[w].tag = "Err"
  /\ ThreadEnd(w, "stopped")
  /\ UNCHANGED <<poolVars, workers, sender, locked, guard, deq, runs, finished,
                 jobVars, dropVars>>

WorkerStep(w) ==
  \/ Lock(w) \/ RecvOk(w) \/ RecvErr(w) \/ Unlock(w)
  \/ StartJob(w) \/ FinishJob(w) \/ FailJob(w) \/ Shutdown(w)

----------------------------------------------------------------------------
(* impl Drop for ThreadPool                                                *)

\* drop(self.sender.take()): the slot is left None; dropping the only Sender
\* disconnects the channel.
DropBeginKeepsSender ==
  /\ ctorResult = "ok"
  /\ dropPc \in {"none", "returned"}
  /\ dropCalls < MaxDrops
  /\ dropCalls' = dropCalls + 1
  /\ joinIdx' = 1
  /\ dropPc' = "loop"
  /\ UNCHANGED <<poolVars, workers, sender, queue, rxRefs, locked, guard, wpc,
                 cur, discarded, deq, runs, finished, jobVars>>

DropBegin ==
  /\ ctorResult = "ok"
  /\ dropPc \in {"none", "returned"}
  /\ dropCalls < MaxDrops
  /\ sender' = "None"
  /\ dropCalls' = dropCalls + 1
  /\ joinIdx' = 1
  /\ dropPc' = "loop"
  /\ UNCHANGED <<poolVars, workers, queue, rxRefs, locked, guard, wpc, cur,
                 discarded, deq, runs, finished, jobVars>>

\* if let Some(thread) = worker.thread.take(): the handle is moved out; a
\* worker whose handle is already None is passed over.
DropTakeAlways ==
  /\ dropPc = "loop"
  /\ joinIdx <= Len(workers)
  /\ workers' = [workers EXCEPT ![joinIdx].thread = FALSE]
  /\ dropPc' = "join"
  /\ UNCHANGED joinIdx
  /\ UNCHANGED <<poolVars, sender, queue, rxRefs, locked, guard, wpc, cur,
                 discarded, deq, runs, finished, jobVars, dropCalls>>

DropTake ==
  /\ dropPc = "loop"
  /\ joinIdx <= Len(workers)
  /\ IF workers[joinIdx].thread
       THEN /\ workers' = [workers EXCEPT ![joinIdx].thread = FALSE]
            /\ dropPc' = "join"
            /\ UNCHANGED joinIdx
       ELSE /\ joinIdx' = joinIdx + 1
            /\ UNCHANGED <<workers, dropPc>>
  /\ UNCHANGED <<poolVars, sender, queue, rxRefs, locked, guard, wpc, cur,
                 discarded, deq, runs, finished, jobVars, dropCalls>>

\* thread.join() blocks until the thread has ended.
JoinReadyDetached(w) == TRUE
JoinReady(w) == ~Alive(w)

\* thread.join().unwrap(): Ok for a thread that returned, Err (and so a
\* panic in drop) for a thread that panicked.
DropJoin ==
  /\ dropPc = "join"
  /\ JoinReady(joinIdx)
  /\ IF wpc[joinIdx] = "dead"
       THEN dropPc' = "panicked" /\ UNCHANGED joinIdx
       ELSE dropPc' = "loop" /\ joinIdx' = joinIdx + 1
  /\ UNCHANGED <<poolVars, workers, sender, queue, rxRefs, locked, guard, wpc,
                 cur, discarded, deq, runs, finished, jobVars, dropCalls>>

\* The for loop is exhausted: drop returns.
DropReturn ==
  /\ dropPc = "loop"
  /\ joinIdx > Len(workers)
  /\ dropPc' = "returned"
  /\ UNCHANGED <<poolVars, workers, sender, queue, rxRefs, locked, guard, wpc,
                 cur, discarded, deq, runs, finished, jobVars, joinIdx, dropCalls>>

----------------------------------------------------------------------------

Init ==
  /\ ctorPath = "none"
  /\ ctorResult = "none"
  /\ errMsg = ""
  /\ size = 0
  /\ chan = FALSE
  /\ workers = <<>>
  /\ sender = "None"
  /\ queue = <<>>
  /\ rxRefs = 0
  /\ locked = FALSE
  /\ guard = <<>>
  /\ wpc = <<>>
  /\ cur = <<>>
  /\ body = [j \in Jobs |-> "unset"]
  /\ accepted = {}
  /\ discarded = {}
  /\ deq = [j \in Jobs |-> 0]
  /\ runs = [j \in Jobs |-> 0]
  /\ finished = [j \in Jobs |-> 0]
  /\ execCalls = 0
  /\ lastExec = "none"
  /\ execPanicked = FALSE
  /\ dropPc = "none"
  /\ joinIdx = 0
  /\ dropCalls = 0

Next ==
  \/ \E n \in 0..MaxSize : New(n)
  \/ \E n \in 0..MaxSize : Build(n)
  \/ \E b \in Bodies : Execute(b)
  \/ \E w \in 1..Len(workers) : Lock(w)
  \/ \E w \in 1..Len(workers) : RecvOk(w)
  \/ \E w \in 1..Len(workers) : RecvErr(w)
  \/ \E w \in 1..Len(workers) : Unlock(w)
  \/ \E w \in 1..Len(workers) : StartJob(w)
  \/ \E w \in 1..Len(workers) : FinishJob(w)
  \/ \E w \in 1..Len(workers) : FailJob(w)
  \/ \E w \in 1..Len(workers) : Shutdown(w)
  \/ DropBegin
  \/ DropTake
  \/ DropJoin
  \/ DropReturn

Spec == Init /\ [][Next]_vars

\* Threads are scheduled: a worker thread that can take a step eventually
\* takes one.  Nothing obliges the owner to call execute or to drop the pool.
FairSpec == Spec /\ \A w \in 1..MaxSize : WF_vars(w <= Len(workers) /\ WorkerStep(w))

\* The steps of the loop other than the call of the job: a job may run for
\* ever, the rest of the loop does not.
DequeueStep(w) ==
  \/ Lock(w) \/ RecvOk(w) \/ RecvErr(w) \/ Unlock(w) \/ StartJob(w) \/ Shutdown(w)

\* As FairSpec, but no job is obliged to return (or to panic).
StartFairSpec == Spec /\ \A w \in 1..MaxSize : WF_vars(w <= Len(workers) /\ DequeueStep(w))

\* The steps of drop after it was entered: the owner's thread is scheduled
\* like the others (join itself blocks until the worker has ended).
DropStep == DropTake \/ DropJoin \/ DropReturn

\* As FairSpec, and a drop that was entered goes on when it can.
TeardownFairSpec == FairSpec /\ WF_vars(DropStep)

----------------------------------------------------------------------------
(* Properties.                                                             *)

Holders(j) == {w \in 1..Len(workers) : cur[w] = OkJob(j)}
AllBodiesOk == \A j \in accepted : body[j] = "ok"
Live == ctorResult = "ok" /\ dropCalls = 0

\* C1: when drop returns after any sequence of execute calls whose jobs all
\* return, every accepted job has been received once, called once and has
\* returned once: nothing queued before the teardown is dropped.
C1_TeardownBarrier ==
  (dropPc = "returned" /\ AllBodiesOk) =>
    \A j \in accepted :
      deq[j] = 1 /\ runs[j] = 1 /\ finished[j] = 1 /\ j \notin discarded

C1_Witness ==
  /\ dropPc = "returned"
  /\ size = MaxSize
  /\ accepted = Jobs
  /\ \A j \in Jobs : body[j] = "ok" /\ finished[j] = 1

\* C2: in every reachable state each job was received at most once and
\* called at most once, at most one worker holds it, it is queued at most
\* once, and a job that was received is not in the queue.
C2_AtMostOnce ==
  \A j \in Jobs :
    /\ deq[j] <= 1
    /\ runs[j] <= 1
    /\ runs[j] <= deq[j]
    /\ Cardinality(Holders(j)) <= 1
    /\ Cardinality({i \in 1..Len(queue) : queue[i] = j}) <= 1
    /\ (deq[j] >= 1 => j \notin Range(queue))
    /\ (Holders(j) # {} => deq[j] = 1)

C2_Witness ==
  \E v \in 1..Len(workers) : \E w \in 1..Len(workers) :
    /\ v # w
    /\ wpc[v] = "run" /\ wpc[w] = "run"
    /\ queue # <<>>

\* C3 (as claimed): while the pool has not been torn down, every accepted
\* job is still queued, or held by exactly one worker, or has been called.
C3_NeverLostWhileLive ==
  Live =>
    \A j \in accepted :
      \/ j \in Range(queue)
      \/ Cardinality(Holders(j)) = 1
      \/ runs[j] >= 1

\* C4: when drop has returned, every worker thread has ended.
C4_AllTerminatedAfterTeardown ==
  dropPc = "returned" =>
    /\ Len(workers) = size
    /\ \A w \in 1..Len(workers) : ~Alive(w) /\ ~guard[w]

C4_Witness ==
  /\ dropPc = "returned"
  /\ dropCalls = 1
  /\ size = MaxSize
  /\ accepted # {}

\* C5: an execute call made once the sender slot is None panics at the
\* call, queues nothing, changes no worker, and its job is never received
\* or called.
C5_SubmitAfterTeardownFails ==
  /\ [][(execCalls' # execCalls /\ sender = "None") =>
          /\ lastExec' = "panic_none"
          /\ execPanicked'
          /\ execCalls' \notin accepted'
          /\ UNCHANGED <<queue, accepted, workers, wpc, cur, guard, locked, rxRefs>>]_vars
  /\ [](\A j \in Jobs \ accepted :
          j \notin Range(queue) /\ deq[j] = 0 /\ runs[j] = 0 /\ Holders(j) = {})

C5_Witness ==
  /\ lastExec = "panic_none"
  /\ dropPc = "returned"
  /\ accepted # {}

\* C6: for every n >= 1, new(n) and build(n) both succeed and yield exactly
\* n workers with the indices 0..n-1 in order, each with its thread handle
\* present and its thread started, all n holding the one receiver, and the
\* sender present.
C6_ConstructionYieldsNWorkers ==
  [][(ctorPath = "none" /\ ctorPath' # "none" /\ size' >= 1) =>
       /\ ctorResult' = "ok"
       /\ chan'
       /\ sender' = "Some"
       /\ Len(workers') = size'
       /\ \A i \in 1..size' : workers'[i].id = i - 1 /\ workers'[i].thread
       /\ DOMAIN wpc' = 1..size'
       /\ \A i \in 1..size' : wpc'[i] = "lock"
       /\ rxRefs' = size'
       /\ queue' = <<>>]_vars

C6_Witness ==
  /\ ctorPath = "build"
  /\ ctorResult = "ok"
  /\ size = MaxSize
  /\ Len(workers) = MaxSize
  /\ execCalls = 0 /\ dropCalls = 0

\* C7: with size 0 both constructors fail and create no channel and no
\* worker: new panics, build returns CreationError with the reason
\* "Number of threads equals zero".
C7_ZeroSizeRejected ==
  (ctorPath # "none" /\ size = 0) =>
    /\ ~chan
    /\ workers = <<>> /\ wpc = <<>>
    /\ sender = "None"
    /\ (ctorPath = "new" => ctorResult = "panic")
    /\ (ctorPath = "build" =>
          ctorResult = "err" /\ errMsg = "Number of threads equals zero" /\ errMsg # "")

C7_Witness == ctorPath = "build" /\ size = 0 /\ ctorResult = "err"

\* C8: under fair scheduling of the worker threads, every accepted job
\* eventually returns from its call unless some accepted job has a failing
\* body; no teardown is required for that.  Stated as: an accepted job stays
\* accepted and a returned job stays returned, and whenever some accepted job
\* has not returned, a state follows in which every accepted job has.
C8_AcceptedEventuallyRuns ==
  /\ [][/\ accepted \subseteq accepted'
        /\ \A j \in Jobs : finished[j] <= finished'[j]]_vars
  /\ (\E j \in accepted : finished[j] = 0)
       ~> ((\A j \in accepted : finished[j] >= 1) \/ ~AllBodiesOk)

C8_Witness ==
  /\ Live
  /\ sender = "Some"
  /\ accepted = Jobs
  /\ \A j \in Jobs : finished[j] = 1

\* C9: while the sender is present, execute is never blocked or refused by
\* the queue length or by busy workers; if some worker thread is alive it
\* appends exactly its job at the tail of the queue and changes no worker;
\* only if every worker thread has ended does it fail, with a panic at the
\* call and nothing queued.
C9_SubmitNeverBlocks ==
  /\ []((ctorResult = "ok" /\ sender = "Some" /\ dropPc = "none"
          /\ ~execPanicked /\ execCalls < MaxJobs)
        => ENABLED (\E b \in Bodies : Execute(b)))
  /\ [][(execCalls' # execCalls /\ sender = "Some") =>
          IF \E w \in 1..Len(workers) : Alive(w)
            THEN /\ lastExec' = "ok"
                 /\ ~execPanicked'
                 /\ queue' = Append(queue, execCalls')
                 /\ accepted' = accepted \cup {execCalls'}
                 /\ UNCHANGED <<workers, wpc, cur, guard, locked, rxRefs>>
            ELSE /\ lastExec' = "panic_send"
                 /\ execPanicked'
                 /\ UNCHANGED <<queue, accepted, workers, wpc, cur, guard, locked, rxRefs>>]_vars

C9_Witness ==
  /\ lastExec = "panic_send"
  /\ size = MaxSize
  /\ sender = "Some"

\* C10: at most one worker owns the guard of the receiver's Mutex, a worker
\* owns it exactly while it is inside recv or about to leave the statement,
\* and no worker owns it once it has its job and while it calls it.
C10_LockDiscipline ==
  /\ Cardinality({w \in 1..Len(workers) : guard[w]}) <= 1
  /\ locked <=> (\E w \in 1..Len(workers) : guard[w])
  /\ \A w \in 1..Len(workers) :
       /\ guard[w] <=> wpc[w] \in {"recv", "unlock"}
       /\ wpc[w] \in {"match", "run"} => ~guard[w]

C10_Witness ==
  \E v \in 1..Len(workers) : \E w \in 1..Len(workers) :
    /\ wpc[v] = "run" /\ ~guard[v]
    /\ wpc[w] = "recv" /\ guard[w]

\* The states of the worker of the design: Idle is blocked in the dequeue
\* (waiting for the Mutex or inside recv), Running is from the moment a job
\* was received until its call ends.
Idle(w) == wpc[w] \in {"lock", "recv"}

\* C11: no head-of-line blocking.  With no job obliged ever to return, if
\* job j is the next job of the queue and some worker is idle, j is
\* eventually received and its call started: neither a sibling that runs a
\* job for ever nor a sibling blocked in the dequeue keeps it waiting.
C11_NoHeadOfLineBlocking ==
  \A j \in Jobs :
    (queue # <<>> /\ Head(queue) = j /\ \E w \in 1..Len(workers) : Idle(w))
      ~> (runs[j] >= 1)

C11_Witness ==
  \E v \in 1..Len(workers) : \E w \in 1..Len(workers) :
    /\ v # w
    /\ wpc[v] = "run" /\ cur[v] = OkJob(1) /\ finished[1] = 0
    /\ finished[2] = 1
    /\ wpc[w] = "run" /\ cur[w] = OkJob(3)

\* The state of a worker in the state machine of the design, from the
\* position of its thread and the value it holds: Running from the moment a
\* job was received, Stopped after the break, Dead after a panic of the job,
\* Idle otherwise.
WState(pc, c) ==
  IF pc = "stopped" THEN "Stopped"
  ELSE IF pc = "dead" THEN "Dead"
  ELSE IF c.tag = "Ok" THEN "Running"
  ELSE "Idle"

\* The transitions C12 lists, for one worker in one step.
ListedTransition(w) ==
  LET a == WState(wpc[w], cur[w])
      b == WState(wpc'[w], cur'[w])
  IN \/ a = b
     \/ /\ a = "Idle" /\ b = "Running"
        /\ queue # <<>> /\ cur'[w] = OkJob(Head(queue)) /\ Head(queue) \in accepted
     \/ a = "Running" /\ b = "Idle" /\ finished'[cur[w].job] = finished[cur[w].job] + 1
     \/ a = "Idle" /\ b = "Stopped" /\ sender = "None" /\ queue = <<>>

\* C12 (as claimed): a worker takes only the transitions Idle->Running,
\* Running->Idle and Idle->Stopped (the last only with the sender dropped and
\* the queue empty), and Stopped is terminal.
C12_OnlyListedTransitions ==
  [][\A w \in 1..Len(workers) : ListedTransition(w)]_vars

\* C12 (amended): a worker takes only the listed transitions and, when the
\* body of its job panics, Running->Dead; Stopped and Dead are terminal, a
\* stopped or dead worker holds no job and no guard, and a worker stops only
\* with the sender dropped and the queue empty.
C12_TransitionsWithFailure ==
  /\ [][\A w \in 1..Len(workers) :
          \/ ListedTransition(w)
          \/ /\ WState(wpc[w], cur[w]) = "Running"
             /\ WState(wpc'[w], cur'[w]) = "Dead"
             /\ wpc[w] = "run" /\ body[cur[w].job] = "fail"]_vars
  /\ [](\A w \in 1..Len(workers) :
          /\ wpc[w] \in {"stopped", "dead"} => cur[w] = NoJob /\ ~guard[w]
          /\ wpc[w] = "stopped" => sender = "None" /\ queue = <<>>)

\* Both ways of ending are reached, and a pool dropped before any execute
\* call stops its workers without a job having been called.
C12_Witness ==
  /\ size = MaxSize
  /\ \E v \in 1..Len(workers) : wpc[v] = "dead"
  /\ \E w \in 1..Len(workers) : wpc[w] = "stopped"
  /\ \E j \in Jobs : finished[j] = 1

ObservedClosed(w) == cur[w] = RecvError \/ wpc[w] = "stopped"

\* C14: shutdown skips no job.  Whenever a worker has observed the closed
\* signal, the sender is dropped, the queue is empty, and every accepted job
\* (so every job that was queued when the sender was dropped) was received
\* by some worker, not discarded, and called - or is in the hands of another
\* worker that is about to call it.  So no worker is Stopped while a job is
\* pending.
C14_NoJobSkippedByShutdown ==
  \A w \in 1..Len(workers) :
    ObservedClosed(w) =>
      /\ sender = "None"
      /\ queue = <<>>
      /\ \A j \in accepted :
           /\ deq[j] = 1
           /\ j \notin discarded
           /\ \/ runs[j] = 1
              \/ \E v \in Holders(j) : v # w /\ wpc[v] \in {"unlock", "match"}

\* One worker has stopped on the closed signal once every job had been
\* received, while a sibling still runs the last job.
C14_Witness ==
  /\ accepted = Jobs
  /\ dropCalls = 1
  /\ \E w \in 1..Len(workers) : wpc[w] = "stopped"
  /\ \E v \in 1..Len(workers) : wpc[v] = "run" /\ cur[v] = OkJob(MaxJobs)

\* The handle of worker i was moved out of its slot (it is being, or was,
\* joined).
Taken(i) == ~workers[i].thread

\* C15: drop works in a fixed order.  The sender is dropped before any
\* handle is taken; the handles are taken, and the threads joined, one at a
\* time in the order of the indices 0, 1, ..., N-1 (worker i sits at place
\* i+1 of the vector); a join is passed only once its thread has ended; and
\* drop has returned only after the last of them.
C15_TeardownOrder ==
  /\ [](ctorResult = "ok" =>
          /\ \A i \in 1..Len(workers) : workers[i].id = i - 1
          /\ (dropPc # "none" \/ \E i \in 1..Len(workers) : Taken(i))
               => sender = "None"
          /\ dropCalls = 0 => \A i \in 1..Len(workers) : ~Taken(i)
          /\ (dropCalls = 1 /\ dropPc = "loop")
               => \A i \in 1..Len(workers) :
                    /\ Taken(i) <=> i < joinIdx
                    /\ i < joinIdx => wpc[i] = "stopped"
          /\ (dropCalls = 1 /\ dropPc \in {"join", "panicked"})
               => \A i \in 1..Len(workers) :
                    /\ Taken(i) <=> i <= joinIdx
                    /\ i < joinIdx => wpc[i] = "stopped"
          /\ dropPc = "returned"
               => /\ joinIdx = Len(workers) + 1
                  /\ \A i \in 1..Len(workers) : Taken(i) /\ wpc[i] = "stopped")
  /\ [][/\ (sender = "Some" /\ sender' = "None")
             => (dropPc = "none" /\ \A i \in 1..Len(workers) : ~Taken(i) /\ ~Taken(i)')
        /\ (dropPc # "none" /\ dropPc' \in {"loop", "join", "panicked"} /\ joinIdx' # joinIdx)
             => (joinIdx' = joinIdx + 1 \/ (dropPc = "returned" /\ joinIdx' = 1))
        /\ (dropPc = "join" /\ dropPc' = "loop")
             => (joinIdx' = joinIdx + 1 /\ wpc[joinIdx] = "stopped")]_vars

\* Drop waits for the second worker after the first has ended, with the
\* sender dropped and the second still at work.
C15_Witness ==
  /\ size = MaxSize
  /\ dropCalls = 1 /\ dropPc = "join" /\ joinIdx = MaxSize
  /\ sender = "None"
  /\ Alive(MaxSize)
  /\ \A i \in 1..(MaxSize - 1) : wpc[i] = "stopped"

\* A step of drop.
InDropStep == dropPc' # dropPc \/ joinIdx' # joinIdx \/ dropCalls' # dropCalls

\* What drop can touch of the pool, and what the workers hold.
PoolState == <<workers, sender, queue, rxRefs, locked, guard, wpc, cur,
               accepted, discarded, deq, runs, finished>>

\* C16: teardown is idempotent.  The sender, once dropped, stays dropped (it
\* is dropped once) and a handle, once taken, stays taken and is joined only
\* in the step that takes it (each worker is joined at most once); a run of
\* drop on a pool whose drop has returned changes nothing of the pool,
\* enters no join, does not panic, and is never stuck before it returns.
C16_TeardownIdempotent ==
  /\ [][/\ (ctorResult = "ok" /\ sender = "None") => sender' = "None"
        /\ \A i \in 1..Len(workers) : Taken(i) => Taken(i)'
        /\ (dropPc # "join" /\ dropPc' = "join")
             => (~Taken(joinIdx) /\ Taken(joinIdx)')
        /\ (InDropStep /\ (dropPc = "returned" \/ dropCalls >= 2))
             => /\ UNCHANGED PoolState
                /\ dropPc' \in {"loop", "returned"}]_vars
  /\ []((dropCalls >= 2 /\ dropPc # "returned") => ENABLED DropStep)

\* Drop has run twice to its end on a pool that had executed jobs.
C16_Witness ==
  /\ dropCalls = 2 /\ dropPc = "returned"
  /\ size = MaxSize
  /\ \E j \in Jobs : finished[j] = 1

\* C17: the queue is FIFO.  The queued jobs are in the order of their
\* execute calls and all later than every job already received, so of two
\* accepted jobs the one submitted first is received first, for any number
\* of workers; with one worker a job is called only after every job
\* submitted before it has returned.
C17_Fifo ==
  /\ \A i \in 1..Len(queue) : \A k \in 1..Len(queue) :
       i < k => queue[i] < queue[k]
  /\ \A a \in accepted : \A b \in accepted :
       a < b =>
         /\ deq[b] >= 1 => deq[a] >= 1
         /\ b \in Range(queue) => (deq[a] >= 1 \/ a \in Range(queue))
         /\ (size = 1 /\ runs[b] >= 1) => finished[a] >= 1

\* Two workers: job 1 was received first and job 2 second, job 3 waits;
\* the call of job 2 has begun before that of job 1.
C17_Witness ==
  /\ size = MaxSize
  /\ deq[1] = 1 /\ deq[2] = 1 /\ deq[3] = 0
  /\ 3 \in Range(queue)
  /\ runs[1] = 0 /\ runs[2] = 1

AliveSet == {w \in 1..Len(workers) : Alive(w)}

\* C18: a failing job takes down exactly the worker that ran it.  The step
\* in which a worker dies is the panic of the job it runs; it leaves every
\* other worker, the Mutex and - while another worker lives - the queue as
\* they were; a dead worker holds no guard and stays dead, the set of live
\* workers never grows, the Mutex is only ever held by a live worker; and
\* (fair scheduling) the jobs queued when a worker is dead are still taken
\* off the queue by its siblings, as long as one of them lives.
C18_FailureKillsOnlyItsWorker ==
  /\ [][\A w \in 1..Len(workers) :
          /\ (wpc[w] = "run" /\ body[cur[w].job] = "fail")
               => wpc'[w] \in {"run", "dead"}
          /\ (wpc[w] # "dead" /\ wpc'[w] = "dead")
               => /\ wpc[w] = "run" /\ body[cur[w].job] = "fail"
                  /\ ~guard[w]
                  /\ UNCHANGED <<workers, locked, guard, sender>>
                  /\ \A v \in 1..Len(workers) \ {w} :
                       wpc'[v] = wpc[v] /\ cur'[v] = cur[v]
                  /\ (AliveSet # {w}) => UNCHANGED <<queue, discarded>>]_vars
  /\ [][ctorResult = "ok" =>
          /\ Len(workers') = Len(workers)
          /\ AliveSet' \subseteq AliveSet]_vars
  /\ [](\A w \in 1..Len(workers) : wpc[w] = "dead" => ~guard[w] /\ cur[w] = NoJob)
  /\ [](locked => \E w \in AliveSet : guard[w])
  /\ ((\E w \in 1..Len(workers) : wpc[w] = "dead") /\ queue # <<>>)
       ~> (queue = <<>> \/ AliveSet = {})

\* One worker is dead of job 1; its sibling has since finished job 2 and
\* runs job 3.
C18_Witness ==
  \E v \in 1..Len(workers) : \E w \in 1..Len(workers) :
    /\ wpc[v] = "dead" /\ body[1] = "fail" /\ runs[1] = 1
    /\ finished[2] = 1
    /\ wpc[w] = "run" /\ cur[w] = OkJob(3)

DeadSet == {w \in 1..Len(workers) : wpc[w] = "dead"}

\* C19 (as claimed): in a pool of two or more workers of which one was
\* terminated by a failing job, an execute call on the live pool does not
\* fail, and drop does not itself fail: it drops the sender, joins every
\* worker and returns.
C19_FailureOnlyReducesCapacity ==
  (ctorResult = "ok" /\ size >= 2 /\ Cardinality(DeadSet) = 1) =>
    /\ lastExec # "panic_send"
    /\ dropPc # "panicked"
    /\ dropPc # "none" => sender = "None"

\* C20 (as claimed): whichever of execute and drop comes first, an execute
\* call is either accepted while the sender is present, and then its job has
\* been called by the time drop returns, or it is made on the taken sender
\* and fails; no accepted job is dropped without having been called, drop
\* does not fail, and while drop waits some worker or drop itself can step.
C20_RaceResolvesCleanly ==
  /\ accepted \cap discarded = {}
  /\ dropPc = "returned" => \A j \in accepted : runs[j] >= 1
  /\ (execCalls >= 1 /\ execCalls \notin accepted) => execPanicked
  /\ dropPc # "panicked"
  /\ dropPc \in {"loop", "join"} =>
       \/ ENABLED DropStep
       \/ \E w \in 1..Len(workers) : ENABLED WorkerStep(w)

====
